---- MODULE Spec2Model ----
(***************************************************************************)
(* Multi-angle face identity resolution core of the PicMe backend:         *)
(*   - MultiAngleFaceModel        (multi_angle_face_model.py)              *)
(*   - MultiAngleFaceDatabase     (multi_angle_database.py)                *)
(*   - EnhancedMatchingEngine     (enhanced_matching_engine.py)            *)
(*   - PhotoProcessor             (photo_processor.py)                     *)
(*   - LiveFaceScanner            (live_face_scanner.py)                   *)
(*                                                                         *)
(* Numbers.  Face encodings are points of a one-dimensional space, written *)
(* in hundredths, so that the Euclidean distance of two encodings is the   *)
(* absolute value of their difference (face_distance, np.linalg.norm).     *)
(* Distances, tolerances and quality scores are written in hundredths      *)
(* (0.6 is 60); confidences are percentages.  Where the code multiplies a  *)
(* distance by 0.6, 0.3, 0.2, 0.1 or divides by 3, the model keeps the     *)
(* result exact by working in units of 1/3000 (a distance d in hundredths  *)
(* is 30*d units, a percentage p is 30*p units).                           *)
(***************************************************************************)
EXTENDS Integers, Sequences, FiniteSets, TLC

VARIABLES
    known_faces,    \* MultiAngleFaceModel.known_faces: person_id -> encodings, quality_scores
    known_order,    \* iteration order of the known_faces dict (insertion order)
    learn_calls,    \* number of learn / migrate calls made so far
    rec,            \* arguments and result of the last recognize_face_multi_angle call
    learned,        \* the last learn_face_multi_angle / migrate_from_old_model call: center given, return value
    persons,            \* ids of the rows of table persons
    next_person_id,     \* AUTO_INCREMENT counter of persons
    face_encodings,     \* rows of table face_encodings
    next_encoding_id,   \* AUTO_INCREMENT counter of face_encodings
    person_photos,      \* rows of table person_photos
    next_assoc_id,      \* AUTO_INCREMENT counter of person_photos
    db_call,            \* the last MultiAngleFaceDatabase call: arguments, return value
    pc,                 \* per caller: the statement of add_face_encoding it is at
    locals,             \* per caller: arguments and local variables of its call
    encoding_cache,     \* EnhancedMatchingEngine.encoding_cache
    cache_timestamp,    \* EnhancedMatchingEngine.cache_timestamp
    now,                \* time.time(), in seconds
    next_detection_id,  \* AUTO_INCREMENT counter of face_detections
    match,              \* the last match_face call: arguments, records used, result
    engine_call,        \* the last EnhancedMatchingEngine call that read or cleared the cache
    similar,            \* the last find_similar_faces call: arguments, list returned
    current_angle,          \* LiveFaceScanner.current_angle
    captured_encodings,     \* LiveFaceScanner.captured_encodings
    captured_images,        \* LiveFaceScanner.captured_images
    capture_quality,        \* LiveFaceScanner.capture_quality
    captured_pose_angles,   \* LiveFaceScanner.captured_pose_angles
    pose_stable_count,      \* LiveFaceScanner.pose_stable_count
    last_detected_angle,    \* LiveFaceScanner.last_detected_angle
    scan,                   \* the last LiveFaceScanner call: arguments, return value
    recent_frames           \* per frame evaluated, the 5 latest: the stage it passed every gate of, or "failed"

resolverVars == <<known_faces, known_order, learn_calls, rec, learned>>

storeVars == <<persons, next_person_id, face_encodings, next_encoding_id,
               person_photos, next_assoc_id, db_call>>

concVars == <<pc, locals>>

engineVars == <<encoding_cache, cache_timestamp, now, next_detection_id,
                match, engine_call, similar>>

scannerVars == <<current_angle, captured_encodings, captured_images,
                 capture_quality, captured_pose_angles, pose_stable_count,
                 last_detected_angle, scan, recent_frames>>

vars == <<resolverVars, storeVars, concVars, engineVars, scannerVars>>

\* what the operations of MultiAngleFaceModel leave alone
nonResolverVars == <<storeVars, concVars, engineVars, scannerVars>>

\* what the operations of MultiAngleFaceDatabase leave alone
nonStoreVars == <<resolverVars, concVars, engineVars, scannerVars>>

\* ------------------------------------------------------------------------
\* Python built-ins used by the code
\* ------------------------------------------------------------------------

\* None where a person id is expected (person ids are the numbers from 1)
None == 0

Min2(a, b) == IF a <= b THEN a ELSE b

Max2(a, b) == IF a >= b THEN a ELSE b

Abs(x) == IF x < 0 THEN 0 - x ELSE x

\* float('inf'): larger than every finite distance of the model, in either unit
INF == 1000000

\* ------------------------------------------------------------------------
\* Bounds of the model
\* ------------------------------------------------------------------------

\* number of learn_face_multi_angle / migrate_from_old_model calls explored
MaxLearnCalls == 2

\* encodings (points on a line, in hundredths) the inputs are drawn from
EncValues == {0, 40, 100}

\* the three buckets the model stores
Buckets == {"center", "left", "right"}

\* photo_orientation values of recognize_face_multi_angle
Orientations == {"center", "left", "right", "angle_left", "angle_right", "unknown"}

\* quality_score arguments of recognize_face_multi_angle, in hundredths
RecQualities == {40, 100}

\* ------------------------------------------------------------------------
\* face_recognition_config.py / MultiAngleFaceModel.TOLERANCE_SETTINGS
\* ------------------------------------------------------------------------

TOLERANCE_NORMAL == 60

TOLERANCE_WITH_ACCESSORIES == 68

TOLERANCE_SIDE_PROFILE == 63

MINIMUM_MATCH_THRESHOLD == 70

\* _find_existing_person(encoding, tolerance=0.5)
FIND_EXISTING_TOLERANCE == 50

\* ------------------------------------------------------------------------
\* MultiAngleFaceModel
\* ------------------------------------------------------------------------

\* face_recognition.face_distance([stored], encoding)[0], in hundredths
face_distance(stored, encoding) == Abs(stored - encoding)

\* distance_to_<bucket>: float('inf') when the bucket is not stored
DistanceToBucket(encodings, bucket, photo_encoding) ==
    IF bucket \in DOMAIN encodings
    THEN face_distance(encodings[bucket], photo_encoding)
    ELSE INF

\* w1*d1 + w2*d2 + w3*d3 in units of 1/3000 (the weights are 30 times the
\* code's); any infinite term makes the sum infinite
WeightedSum(w1, d1, w2, d2, w3, d3) ==
    IF d1 = INF \/ d2 = INF \/ d3 = INF
    THEN INF
    ELSE w1 * d1 + w2 * d2 + w3 * d3

\* a distance in hundredths, in units of 1/3000
Units(d) == IF d = INF THEN INF ELSE 30 * d

\* weighted_distance of the orientation branch taken
WeightedDistance(dc, dl, dr, photo_orientation) ==
    IF photo_orientation = "center"
    THEN WeightedSum(18, dc, 6, dl, 6, dr)
    ELSE IF photo_orientation \in {"left", "angle_left"}
    THEN WeightedSum(18, dl, 9, dc, 3, dr)
    ELSE IF photo_orientation \in {"right", "angle_right"}
    THEN WeightedSum(18, dr, 9, dc, 3, dl)
    ELSE WeightedSum(10, dc, 10, dl, 10, dr)

\* primary_distance of the orientation branch taken
PrimaryDistance(dc, dl, dr, photo_orientation) ==
    IF photo_orientation = "center"
    THEN Units(dc)
    ELSE IF photo_orientation \in {"left", "angle_left"}
    THEN Units(dl)
    ELSE IF photo_orientation \in {"right", "angle_right"}
    THEN Units(dr)
    ELSE Units(Min2(dc, Min2(dl, dr)))

\* final_distance without the primary distance: the weighted sum alone
FinalDistanceWeightedOnly(encodings, photo_encoding, photo_orientation) ==
    LET dc == DistanceToBucket(encodings, "center", photo_encoding)
        dl == DistanceToBucket(encodings, "left", photo_encoding)
        dr == DistanceToBucket(encodings, "right", photo_encoding)
    IN  WeightedDistance(dc, dl, dr, photo_orientation)

\* final_distance = min(primary_distance, weighted_distance), units of 1/3000
FinalDistance(encodings, photo_encoding, photo_orientation) ==
    LET dc == DistanceToBucket(encodings, "center", photo_encoding)
        dl == DistanceToBucket(encodings, "left", photo_encoding)
        dr == DistanceToBucket(encodings, "right", photo_encoding)
    IN  Min2(PrimaryDistance(dc, dl, dr, photo_orientation),
             WeightedDistance(dc, dl, dr, photo_orientation))

\* the loop over known_faces.items(): the first identity, in dict order, of
\* strictly smallest final distance; best = <<person id, distance>>
RECURSIVE BestCandidate(_, _, _, _, _, _)
BestCandidate(faces, order, i, best, photo_encoding, photo_orientation) ==
    IF i > Len(order)
    THEN best
    ELSE LET d == FinalDistance(faces[order[i]].encodings, photo_encoding,
                                photo_orientation)
         IN  BestCandidate(faces, order, i + 1,
                           IF d < best[2] THEN <<order[i], d>> ELSE best,
                           photo_encoding, photo_orientation)

\* a base_tolerance that accessories lower to 0.55 in place of raising it
AdaptiveToleranceStricterWithAccessories(photo_orientation, has_accessories, quality_score) ==
    LET t1 == IF has_accessories THEN TOLERANCE_NORMAL - 5
                                 ELSE TOLERANCE_NORMAL
        t2 == IF quality_score < 50 THEN t1 - 5 ELSE t1
    IN  t2

\* base_tolerance after the three adjustments, in hundredths
AdaptiveTolerance(photo_orientation, has_accessories, quality_score) ==
    LET t1 == IF has_accessories THEN TOLERANCE_WITH_ACCESSORIES
                                 ELSE TOLERANCE_NORMAL
        t2 == IF quality_score < 50 THEN t1 + 5 ELSE t1
    IN  IF photo_orientation \in {"left", "right", "angle_left", "angle_right"}
        THEN Max2(t2, TOLERANCE_SIDE_PROFILE)
        ELSE t2

\* confidence_percentage = max(0, (1 - distance) * 100), units of 1/30 percent
ConfidencePercentage(distance) ==
    IF distance = INF THEN 0 ELSE Max2(0, 3000 - distance)

\* min_confidence_required raised to 70 when it is lower
MinConfidenceAtLeastSeventy(tolerance) ==
    LET required == (100 - tolerance) * 30
    IN  IF required < MINIMUM_MATCH_THRESHOLD * 30
        THEN MINIMUM_MATCH_THRESHOLD * 30
        ELSE required

\* min_confidence_required: (1 - tolerance) * 100, lowered to 70 when it is
\* higher, units of 1/30 percent
MinConfidenceRequired(tolerance) ==
    LET required == (100 - tolerance) * 30
    IN  IF required > MINIMUM_MATCH_THRESHOLD * 30
        THEN MINIMUM_MATCH_THRESHOLD * 30
        ELSE required

\* a recognize_face_multi_angle that answers no match at distance 0.0 in
\* place of float('inf'), whatever the model holds
RecognizeResultZeroWhenEmpty(faces, order, photo_encoding, photo_orientation, has_accessories, quality_score) ==
    [called |-> TRUE, photo_encoding |-> photo_encoding,
     photo_orientation |-> photo_orientation,
     has_accessories |-> has_accessories, quality_score |-> quality_score,
     person_id |-> None, confidence |-> 0, distance |-> 0,
     best_person_id |-> None, confidence_percentage |-> 0,
     min_confidence_required |-> 0, empty |-> DOMAIN faces = {}]

\* the value returned by recognize_face_multi_angle, with its arguments
RecognizeResult(faces, order, photo_encoding, photo_orientation, has_accessories, quality_score) ==
    IF DOMAIN faces = {}
    THEN [called |-> TRUE, photo_encoding |-> photo_encoding,
          photo_orientation |-> photo_orientation,
          has_accessories |-> has_accessories, quality_score |-> quality_score,
          person_id |-> None, confidence |-> 0, distance |-> INF,
          best_person_id |-> None, confidence_percentage |-> 0,
          min_confidence_required |-> 0, empty |-> TRUE]
    ELSE LET best == BestCandidate(faces, order, 1, <<None, INF>>,
                                   photo_encoding, photo_orientation)
             tol == AdaptiveTolerance(photo_orientation, has_accessories,
                                      quality_score)
             conf == ConfidencePercentage(best[2])
             req == MinConfidenceRequired(tol)
             is_match == conf >= req
         IN  [called |-> TRUE, photo_encoding |-> photo_encoding,
              photo_orientation |-> photo_orientation,
              has_accessories |-> has_accessories,
              quality_score |-> quality_score,
              person_id |-> IF is_match THEN best[1] ELSE None,
              confidence |-> IF is_match THEN conf ELSE 0,
              distance |-> best[2],
              best_person_id |-> best[1], confidence_percentage |-> conf,
              min_confidence_required |-> req, empty |-> FALSE]

NoCall == [called |-> FALSE]

\* an empty Python dict
EmptyDict == << >>

\* smallest distance from encoding to the stored angles of one person
RECURSIVE MinDistanceOver(_, _, _)
MinDistanceOver(encodings, angles, encoding) ==
    IF angles = {}
    THEN INF
    ELSE LET a == CHOOSE x \in angles : TRUE
         IN  Min2(face_distance(encodings[a], encoding),
                  MinDistanceOver(encodings, angles \ {a}, encoding))

\* the loop of _find_existing_person: first person, in dict order, holding
\* the strictly smallest distance over all its stored angles
RECURSIVE NearestPerson(_, _, _, _, _)
NearestPerson(faces, order, i, best, encoding) ==
    IF i > Len(order)
    THEN best
    ELSE LET e == faces[order[i]].encodings
             d == MinDistanceOver(e, DOMAIN e, encoding)
         IN  NearestPerson(faces, order, i + 1,
                           IF d < best[2] THEN <<order[i], d>> ELSE best,
                           encoding)

\* a _find_existing_person that compares the center bucket only
FindExistingPersonByCenter(faces, order, encoding) ==
    LET near == {p \in DOMAIN faces :
                    /\ "center" \in DOMAIN faces[p].encodings
                    /\ face_distance(faces[p].encodings["center"], encoding)
                          <= FIND_EXISTING_TOLERANCE}
    IN  IF near = {} THEN None
        ELSE CHOOSE p \in near :
                \A q \in near :
                    face_distance(faces[p].encodings["center"], encoding)
                        <= face_distance(faces[q].encodings["center"],
                                         encoding)

\* _find_existing_person(encoding, tolerance=0.5)
FindExistingPerson(faces, order, encoding) ==
    IF DOMAIN faces = {}
    THEN None
    ELSE LET best == NearestPerson(faces, order, 1, <<None, INF>>, encoding)
         IN  IF best[2] <= FIND_EXISTING_TOLERANCE THEN best[1] ELSE None

\* dict.get(key, 0)
GetOrZero(dict, key) == IF key \in DOMAIN dict THEN dict[key] ELSE 0

\* new_quality_scores.get(angle, 0) if new_quality_scores else 0
\* (a quality_scores argument of None is written as the empty dict: the code
\* treats the two alike, here and in "quality_scores or {}")
NewQuality(new_quality_scores, angle) ==
    IF new_quality_scores = EmptyDict
    THEN 0
    ELSE GetOrZero(new_quality_scores, angle)

\* the angles _update_encodings_if_better replaces
AnglesToUpdate(person, new_encodings, new_quality_scores) ==
    {a \in DOMAIN new_encodings :
        \/ a \notin DOMAIN person.encodings
        \/ NewQuality(new_quality_scores, a) > GetOrZero(person.quality_scores, a)}

\* _update_encodings_if_better: the person's record afterwards
UpdateEncodingsIfBetter(person, new_encodings, new_quality_scores) ==
    LET upd == AnglesToUpdate(person, new_encodings, new_quality_scores)
    IN  [encodings |->
            [a \in DOMAIN person.encodings \cup upd |->
                IF a \in upd THEN new_encodings[a] ELSE person.encodings[a]],
         quality_scores |->
            [a \in DOMAIN person.quality_scores \cup upd |->
                IF a \in upd THEN NewQuality(new_quality_scores, a)
                              ELSE person.quality_scores[a]]]

\* new_id = f"person_{len(self.known_faces) + 1:04d}", as its number
NewPersonId(faces) == Cardinality(DOMAIN faces) + 1

\* known_faces[id] = value: a new key goes last, an existing key keeps its place
DictSet(faces, id, value) ==
    [p \in DOMAIN faces \cup {id} |-> IF p = id THEN value ELSE faces[p]]

OrderSet(faces, order, id) ==
    IF id \in DOMAIN faces THEN order ELSE Append(order, id)

\* learn_face_multi_angle(encodings_dict, quality_scores)
LearnFaceMultiAngle(encodings_dict, quality_scores) ==
    /\ rec = NoCall
    /\ learn_calls < MaxLearnCalls
    /\ learn_calls' = learn_calls + 1
    /\ rec' = NoCall
    /\ UNCHANGED nonResolverVars
    /\ IF "center" \notin DOMAIN encodings_dict
       THEN /\ UNCHANGED <<known_faces, known_order>>
            /\ learned' = [called |-> TRUE, op |-> "learn_face_multi_angle",
                            has_center |-> FALSE, center |-> 0,
                            created |-> FALSE, ret |-> None]
       ELSE LET existing == FindExistingPerson(known_faces, known_order,
                                               encodings_dict["center"])
            IN  IF existing # None
                THEN /\ known_faces' =
                         [known_faces EXCEPT ![existing] =
                             UpdateEncodingsIfBetter(@, encodings_dict,
                                                     quality_scores)]
                     /\ UNCHANGED known_order
                     /\ learned' = [called |-> TRUE,
                                     op |-> "learn_face_multi_angle",
                                     has_center |-> TRUE,
                                     center |-> encodings_dict["center"],
                                     created |-> FALSE, ret |-> existing]
                ELSE LET new_id == NewPersonId(known_faces)
                         person == [encodings |-> encodings_dict,
                                    quality_scores |-> quality_scores]
                     IN  /\ known_faces' = DictSet(known_faces, new_id, person)
                         /\ known_order' = OrderSet(known_faces, known_order,
                                                    new_id)
                         /\ learned' = [called |-> TRUE,
                                         op |-> "learn_face_multi_angle",
                                         has_center |-> TRUE,
                                         center |-> encodings_dict["center"],
                                         created |-> TRUE, ret |-> new_id]

\* migrate_from_old_model(old_encodings, old_ids), lists of one element
MigrateFromOldModel(encoding, person_id) ==
    /\ rec = NoCall
    /\ learn_calls < MaxLearnCalls
    /\ learn_calls' = learn_calls + 1
    /\ rec' = NoCall
    /\ UNCHANGED nonResolverVars
    /\ IF person_id \notin DOMAIN known_faces
       THEN /\ known_faces' =
                DictSet(known_faces, person_id,
                        [encodings |-> [a \in {"center"} |-> encoding],
                         quality_scores |-> EmptyDict])
            /\ known_order' = OrderSet(known_faces, known_order, person_id)
       ELSE UNCHANGED <<known_faces, known_order>>
    /\ learned' = [called |-> TRUE, op |-> "migrate_from_old_model",
                    has_center |-> TRUE, center |-> encoding,
                    created |-> person_id \notin DOMAIN known_faces,
                    ret |-> None]

\* a recognize_face_multi_angle that enrolls the query as a new identity
\* when nothing matches
RecognizeOrEnroll(photo_encoding, photo_orientation, has_accessories, quality_score) ==
    /\ rec = NoCall
    /\ rec' = RecognizeResult(known_faces, known_order, photo_encoding,
                              photo_orientation, has_accessories,
                              quality_score)
    /\ IF rec'.person_id = None
       THEN /\ known_faces' =
                 DictSet(known_faces, NewPersonId(known_faces),
                         [encodings |-> [a \in {"center"} |-> photo_encoding],
                          quality_scores |-> EmptyDict])
            /\ known_order' = OrderSet(known_faces, known_order,
                                       NewPersonId(known_faces))
       ELSE UNCHANGED <<known_faces, known_order>>
    /\ UNCHANGED <<learn_calls, learned>>
    /\ UNCHANGED nonResolverVars

\* recognize_face_multi_angle(photo_encoding, True, photo_orientation,
\*                            has_accessories, quality_score)
RecognizeFaceMultiAngle(photo_encoding, photo_orientation, has_accessories, quality_score) ==
    /\ rec = NoCall
    /\ rec' = RecognizeResult(known_faces, known_order, photo_encoding,
                              photo_orientation, has_accessories,
                              quality_score)
    /\ UNCHANGED <<known_faces, known_order, learn_calls, learned>>
    /\ UNCHANGED nonResolverVars

\* the caller has taken the result of recognize_face_multi_angle
RecognizeReturn ==
    /\ rec # NoCall
    /\ rec' = NoCall
    /\ UNCHANGED <<known_faces, known_order, learn_calls, learned>>
    /\ UNCHANGED nonResolverVars

\* the key sets of the encodings_dict arguments explored: one angle, with
\* and without the center the code asks for, and all three angles
LearnAngleSets == {{"center"}, {"left"}, {"center", "left", "right"}}

\* the encodings_dict arguments explored
EncodingDicts ==
    UNION {[angles -> EncValues] : angles \in LearnAngleSets}

\* the quality_scores arguments explored: None, or one score for every angle
QualityDicts(encodings_dict) ==
    {EmptyDict} \cup {[a \in DOMAIN encodings_dict |-> q] : q \in {80}}

\* MultiAngleFaceModel() with no data file
ModelConstructed ==
    /\ known_faces = EmptyDict
    /\ known_order = << >>
    /\ learn_calls = 0
    /\ rec = NoCall
    /\ learned = NoCall

\* the tables as create_enhanced_schema leaves them: empty
SchemaCreated ==
    /\ persons = {}
    /\ next_person_id = 1
    /\ face_encodings = {}
    /\ next_encoding_id = 1
    /\ person_photos = {}
    /\ next_assoc_id = 1
    /\ db_call = NoCall

\* the callers of add_face_encoding whose statements interleave
Callers == {1, 2}

\* the local variables of a caller that is not inside add_face_encoding
IdleLocals == [angle |-> "", quality_score |-> 0, existing_count |-> 0,
               target |-> 0]

\* no add_face_encoding call is in progress
CallersIdle ==
    /\ pc = [w \in Callers |-> "idle"]
    /\ locals = [w \in Callers |-> IdleLocals]

\* self.cache_ttl = 300
CACHE_TTL == 300

\* EnhancedMatchingEngine.__init__ over the empty tables; time.time() is
\* at least cache_ttl seconds away from the 0 that marks an unset timestamp
EngineConstructed ==
    /\ encoding_cache = {}
    /\ cache_timestamp = 0
    /\ now = CACHE_TTL
    /\ next_detection_id = 1
    /\ match = NoCall
    /\ engine_call = [op |-> "none", after |-> "none", tag |-> 0,
                      from_cache |-> FALSE, all_encodings |-> {}]
    /\ similar = NoCall

\* LiveFaceScanner.__init__
ScannerConstructed ==
    /\ current_angle = "front"
    /\ captured_encodings = EmptyDict
    /\ captured_images = EmptyDict
    /\ capture_quality = EmptyDict
    /\ captured_pose_angles = EmptyDict
    /\ pose_stable_count = 0
    /\ last_detected_angle = 0
    /\ scan = NoCall
    /\ recent_frames = << >>

\* every component as its constructor leaves it
Constructed ==
    /\ ModelConstructed
    /\ SchemaCreated
    /\ CallersIdle
    /\ EngineConstructed
    /\ ScannerConstructed

ResolverNext ==
    \/ \E e \in EncodingDicts : \E q \in QualityDicts(e) :
          LearnFaceMultiAngle(e, q)
    \/ \E e \in EncValues : \E id \in 1..MaxLearnCalls :
          MigrateFromOldModel(e, id)
    \/ \E e \in EncValues : \E o \in Orientations :
          \E acc \in BOOLEAN : \E q \in RecQualities :
            RecognizeFaceMultiAngle(e, o, acc, q)
    \/ RecognizeReturn

SpecResolver == Constructed /\ [][ResolverNext]_vars

\* encodings of the identities enrolled with all three angles
StoredValues == {0, 60, 100}

\* query encodings: at distance 0, 0.05, 0.35, 0.40, 0.60, 0.65 and 1.00
\* from the stored ones
QueryValues == {0, 60, 65, 100}

\* encodings_dict arguments holding center, left and right
ThreeAngleDicts == [Buckets -> StoredValues]

\* identities enrolled with three angles, resolved with every orientation
\* hint
MatchNext ==
    \/ \E e \in ThreeAngleDicts : LearnFaceMultiAngle(e, EmptyDict)
    \/ \E e \in QueryValues : \E o \in Orientations :
          \E acc \in BOOLEAN : \E q \in RecQualities :
            RecognizeFaceMultiAngle(e, o, acc, q)
    \/ RecognizeReturn

SpecMatch == Constructed /\ [][MatchNext]_vars

\* ------------------------------------------------------------------------
\* Properties of recognize_face_multi_angle
\* ------------------------------------------------------------------------

\* C1: recognize_face_multi_angle never returns a person id when the
\* confidence it computed, max(0, (1 - best final distance) * 100), is below
\* 70%, whatever has_accessories, quality_score and photo_orientation are.
C1_NoMatchBelowSeventyPercent ==
    (rec.called /\ rec.person_id # None)
        => rec.confidence_percentage >= 70 * 30

\* identities whose only stored bucket is center, holding exactly encoding e
CenterOnlyAt(e) ==
    {p \in DOMAIN known_faces :
        /\ DOMAIN known_faces[p].encodings = {"center"}
        /\ known_faces[p].encodings["center"] = e}

\* no identity outside the set ps is at final distance 0 from the query
NoOtherAtZero(ps, e, o) ==
    \A p \in DOMAIN known_faces \ ps :
        FinalDistance(known_faces[p].encodings, e, o) > 0

\* C2: a query with orientation hint left or right at distance 0 from the
\* center embedding of an identity P that stores only the center bucket is
\* resolved to P (no other identity being at final distance 0).
C2_SingleBucketIdentityMatches ==
    (/\ rec.called
     /\ rec.photo_orientation \in {"left", "right"}
     /\ CenterOnlyAt(rec.photo_encoding) # {}
     /\ NoOtherAtZero(CenterOnlyAt(rec.photo_encoding), rec.photo_encoding,
                      rec.photo_orientation))
        => rec.person_id \in CenterOnlyAt(rec.photo_encoding)

\* ------------------------------------------------------------------------
\* MultiAngleFaceDatabase: tables persons, face_encodings, person_photos
\* (create_enhanced_schema.py).  A row of face_encodings is
\*   [id, person_id, encoding, angle, quality_score, is_primary];
\* a row of person_photos is
\*   [id, person_id, photo_id, is_group_photo, match_confidence].
\* The photo and face_detection rows the calls refer to exist (the foreign
\* keys hold); no operation of the class deletes them.
\* ------------------------------------------------------------------------

\* "if existing_count >= 5"
MAX_ENCODINGS_PER_PERSON == 5

\* largest AUTO_INCREMENT id of face_encodings explored
MaxEncodingId == 6

\* largest AUTO_INCREMENT id of face_encodings explored together with
\* persons and photo associations
MaxEncodingIdWithPhotos == 2

\* largest AUTO_INCREMENT id of persons explored
MaxPersonId == 2

\* largest AUTO_INCREMENT id of person_photos explored
MaxAssocId == 3

\* angle arguments of add_face_encoding
StoreAngles == {"frontal", "left_45"}

\* quality_score arguments of add_face_encoding, in hundredths
StoreQualities == {60, 90}

\* photo_id arguments of associate_photo: ids of existing photos rows
PhotoIds == {1}

\* confidence arguments of associate_photo, in units of 1/10000
MatchConfidences == {9200, 9500}

\* SELECT * FROM face_encodings WHERE person_id = %s
EncodingsOf(rows, person_id) == {r \in rows : r.person_id = person_id}

\* _get_encoding_count
GetEncodingCount(rows, person_id) == Cardinality(EncodingsOf(rows, person_id))

\* _get_encoding_by_angle: the rows LIMIT 1 may return (no ORDER BY)
EncodingsByAngle(rows, person_id, angle) ==
    {r \in EncodingsOf(rows, person_id) : r.angle = angle}

\* _get_lowest_quality_encoding: the rows ORDER BY quality_score ASC LIMIT 1
\* may return
LowestQualityEncodings(rows, person_id) ==
    {r \in EncodingsOf(rows, person_id) :
        \A o \in EncodingsOf(rows, person_id) :
            r.quality_score <= o.quality_score}

\* the rows ORDER BY quality_score DESC LIMIT 1 may return
HighestQualityEncodings(rows, person_id) ==
    {r \in EncodingsOf(rows, person_id) :
        \A o \in EncodingsOf(rows, person_id) :
            r.quality_score >= o.quality_score}

\* _delete_encoding
DeleteEncoding(rows, encoding_id) == {r \in rows : r.id # encoding_id}

\* INSERT INTO face_encodings (...) VALUES (..., 0)
InsertEncoding(rows, id, person_id, encoding, angle, quality_score) ==
    rows \cup {[id |-> id, person_id |-> person_id, encoding |-> encoding,
                angle |-> angle, quality_score |-> quality_score,
                is_primary |-> 0]}

\* the second UPDATE of _update_primary_encoding without the first
SetPrimaryWithoutClearing(rows, person_id, best_id) ==
    {[r EXCEPT !.is_primary =
         IF r.person_id = person_id /\ r.id = best_id THEN 1
         ELSE r.is_primary] : r \in rows}

\* _update_primary_encoding with best_id the row of the subquery
SetPrimary(rows, person_id, best_id) ==
    {[r EXCEPT !.is_primary =
         IF r.person_id # person_id THEN r.is_primary
         ELSE IF r.id = best_id THEN 1 ELSE 0] : r \in rows}

\* _update_primary_encoding: the tables it can leave
UpdatePrimaryEncoding(rows, person_id) ==
    IF EncodingsOf(rows, person_id) = {}
    THEN {SetPrimary(rows, person_id, 0)}
    ELSE {SetPrimary(rows, person_id, best.id) :
            best \in HighestQualityEncodings(rows, person_id)}

\* the capacity test with "more than 5" in place of "5 or more"
AtCapacityAboveFive(existing_count) ==
    existing_count > MAX_ENCODINGS_PER_PERSON

\* "if existing_count >= 5"
AtCapacity(existing_count) == existing_count >= MAX_ENCODINGS_PER_PERSON

\* the row add_face_encoding deletes before inserting, or 0 for none, and
\* whether it goes on to insert: the set of <<deleted id, insert, return>>
\* outcomes of lines 300-321 (return is only meaningful without insert)
ReplacementChoices(rows, person_id, angle, quality_score) ==
    IF ~AtCapacity(GetEncodingCount(rows, person_id))
    THEN {<<0, TRUE, 0>>}
    ELSE IF EncodingsByAngle(rows, person_id, angle) # {}
    THEN {IF quality_score > existing_angle.quality_score
          THEN <<existing_angle.id, TRUE, 0>>
          ELSE <<0, FALSE, existing_angle.id>> :
            existing_angle \in EncodingsByAngle(rows, person_id, angle)}
    ELSE IF LowestQualityEncodings(rows, person_id) = {}
    THEN {<<0, FALSE, 0 - 1>>}
    ELSE {IF quality_score > lowest.quality_score
          THEN <<lowest.id, TRUE, 0>>
          ELSE <<0, FALSE, 0 - 1>> :
            lowest \in LowestQualityEncodings(rows, person_id)}

\* add_person, with ids up to max_id
AddPerson(max_id) ==
    /\ next_person_id <= max_id
    /\ persons' = persons \cup {next_person_id}
    /\ next_person_id' = next_person_id + 1
    /\ db_call' = [called |-> TRUE, op |-> "add_person",
                   person_id |-> next_person_id, ret |-> next_person_id]
    /\ UNCHANGED <<face_encodings, next_encoding_id, person_photos,
                   next_assoc_id>>
    /\ UNCHANGED nonStoreVars

\* add_face_encoding from line 297 to its return: the outcomes
\* [rows, inserted, ret] it can have on table rows with id the next
\* AUTO_INCREMENT value
FaceEncodingOutcomes(rows, id, person_id, encoding, angle, quality_score) ==
    UNION {IF choice[2]
           THEN {[rows |-> after, inserted |-> TRUE, ret |-> id] :
                   after \in UpdatePrimaryEncoding(
                                InsertEncoding(
                                    DeleteEncoding(rows, choice[1]),
                                    id, person_id, encoding, angle,
                                    quality_score),
                                person_id)}
           ELSE {[rows |-> rows, inserted |-> FALSE, ret |-> choice[3]]} :
             choice \in ReplacementChoices(rows, person_id, angle,
                                           quality_score)}

\* add_face_encoding(person_id, encoding, angle, quality_score, detection)
\* for an existing person, with ids up to max_id
AddFaceEncoding(person_id, encoding, angle, quality_score, max_id) ==
    /\ person_id \in persons
    /\ next_encoding_id <= max_id
    /\ \E out \in FaceEncodingOutcomes(face_encodings, next_encoding_id,
                                       person_id, encoding, angle,
                                       quality_score) :
          /\ face_encodings' = out.rows
          /\ next_encoding_id' =
                IF out.inserted THEN next_encoding_id + 1
                ELSE next_encoding_id
          /\ db_call' = [called |-> TRUE, op |-> "add_face_encoding",
                         person_id |-> person_id, angle |-> angle,
                         quality_score |-> quality_score,
                         inserted |-> out.inserted, ret |-> out.ret]
    /\ UNCHANGED <<persons, next_person_id, person_photos, next_assoc_id>>
    /\ UNCHANGED nonStoreVars

\* add_face_encoding whose INSERT raises a database Error: the helpers
\* called before it have committed (_delete_encoding, line 483), the
\* except branch rolls back the INSERT alone and re-raises
AddFaceEncodingInsertError(person_id, angle, quality_score) ==
    /\ person_id \in persons
    /\ \E choice \in ReplacementChoices(face_encodings, person_id, angle,
                                         quality_score) :
          /\ choice[2]
          /\ face_encodings' = DeleteEncoding(face_encodings, choice[1])
          /\ db_call' = [called |-> TRUE,
                         op |-> "add_face_encoding raised Error",
                         person_id |-> person_id, angle |-> angle,
                         quality_score |-> quality_score,
                         replaced |-> choice[1]]
    /\ UNCHANGED <<persons, next_person_id, next_encoding_id, person_photos,
                   next_assoc_id>>
    /\ UNCHANGED nonStoreVars

\* a person_photos table without the UNIQUE(person_id, photo_id) key
NoDuplicateKeyRows(rows, person_id, photo_id) == {}

\* the row of person_photos holding the UNIQUE(person_id, photo_id) key
DuplicateKeyRows(rows, person_id, photo_id) ==
    {r \in rows : r.person_id = person_id /\ r.photo_id = photo_id}

\* INSERT INTO person_photos ... ON DUPLICATE KEY UPDATE match_confidence
InsertOrUpdateAssociation(rows, id, person_id, photo_id, is_group, confidence) ==
    IF DuplicateKeyRows(rows, person_id, photo_id) # {}
    THEN {IF r \in DuplicateKeyRows(rows, person_id, photo_id)
          THEN [r EXCEPT !.match_confidence = confidence]
          ELSE r : r \in rows}
    ELSE rows \cup {[id |-> id, person_id |-> person_id,
                     photo_id |-> photo_id, is_group_photo |-> is_group,
                     match_confidence |-> confidence]}

\* associate_photo(person_id, photo_id, is_group, confidence, detection)
\* for an existing person and photo
AssociatePhoto(person_id, photo_id, is_group, confidence) ==
    /\ person_id \in persons
    /\ next_assoc_id <= MaxAssocId
    /\ person_photos' = InsertOrUpdateAssociation(person_photos, next_assoc_id,
                                                  person_id, photo_id,
                                                  is_group, confidence)
    /\ next_assoc_id' =
          IF DuplicateKeyRows(person_photos, person_id, photo_id) # {}
          THEN next_assoc_id ELSE next_assoc_id + 1
    /\ db_call' = [called |-> TRUE, op |-> "associate_photo",
                   person_id |-> person_id, photo_id |-> photo_id,
                   confidence |-> confidence,
                   existed |->
                     DuplicateKeyRows(person_photos, person_id, photo_id) # {}]
    /\ UNCHANGED <<persons, next_person_id, face_encodings, next_encoding_id>>
    /\ UNCHANGED nonStoreVars

\* a foreign key without ON DELETE CASCADE
NoCascadeDelete(rows, person_id) == rows

\* FOREIGN KEY (person_id) REFERENCES persons(id) ON DELETE CASCADE
CascadeDelete(rows, person_id) == {r \in rows : r.person_id # person_id}

\* delete_person(person_id)
DeletePerson(person_id) ==
    /\ persons' = persons \ {person_id}
    /\ face_encodings' = CascadeDelete(face_encodings, person_id)
    /\ person_photos' = CascadeDelete(person_photos, person_id)
    /\ db_call' = [called |-> TRUE, op |-> "delete_person",
                   person_id |-> person_id, ret |-> person_id \in persons]
    /\ UNCHANGED <<next_person_id, next_encoding_id, next_assoc_id>>
    /\ UNCHANGED nonStoreVars

\* get_person(person_id): the row, or None
GetPerson(person_id) == IF person_id \in persons THEN person_id ELSE None

\* get_person_encodings(person_id)
GetPersonEncodings(person_id) == EncodingsOf(face_encodings, person_id)

\* get_person_photos(person_id): individual and group photos together
GetPersonPhotos(person_id) ==
    {r \in person_photos : r.person_id = person_id /\ r.photo_id \in PhotoIds}

\* one identity and its embedding records
EncodingsNext ==
    \/ AddPerson(1)
    \/ \E p \in persons : \E e \in {0} :
          \E a \in StoreAngles : \E q \in StoreQualities :
            AddFaceEncoding(p, e, a, q, MaxEncodingId)

SpecEncodings == Constructed /\ [][EncodingsNext]_vars

\* identities with their embedding records and photo associations
PersonsNext ==
    \/ AddPerson(MaxPersonId)
    \/ \E p \in persons : \E e \in {0} :
          \E q \in StoreQualities :
            AddFaceEncoding(p, e, "frontal", q, MaxEncodingIdWithPhotos)
    \/ \E p \in persons : \E ph \in PhotoIds :
          \E c \in MatchConfidences :
            AssociatePhoto(p, ph, FALSE, c)
    \/ \E p \in 1..MaxPersonId : DeletePerson(p)

SpecPersons == Constructed /\ [][PersonsNext]_vars

\* the records of person_id flagged primary
PrimaryRows(person_id) ==
    {r \in EncodingsOf(face_encodings, person_id) : r.is_primary = 1}

\* the state right after an add_face_encoding call returned
AfterAddFaceEncoding == db_call.called /\ db_call.op = "add_face_encoding"

\* C3: after any sequence of add_face_encoding calls executed one at a
\* time, every identity holds at most 5 face_encodings records.
C3_AtMostFiveEncodings ==
    \A p \in 1..MaxPersonId :
        GetEncodingCount(face_encodings, p) <= MAX_ENCODINGS_PER_PERSON

\* a sixth record was offered to an identity holding five and replaced one
C3_SixthEncodingReplaced ==
    /\ AfterAddFaceEncoding
    /\ db_call.inserted
    /\ db_call.ret > MAX_ENCODINGS_PER_PERSON
    /\ GetEncodingCount(face_encodings, db_call.person_id)
          = MAX_ENCODINGS_PER_PERSON

\* C4: after any add_face_encoding call for an identity, accepted or
\* rejected, exactly one of the identity's records has is_primary = 1 and
\* that record's quality is the maximum among the identity's records.
C4_OnePrimaryOfMaxQuality ==
    AfterAddFaceEncoding =>
        /\ Cardinality(PrimaryRows(db_call.person_id)) = 1
        /\ \A r \in PrimaryRows(db_call.person_id) :
              \A o \in EncodingsOf(face_encodings, db_call.person_id) :
                  r.quality_score >= o.quality_score

\* an accepted call moved the primary flag to the new record while records
\* of lower quality remain
C4_PrimaryMovedToNewRecord ==
    /\ AfterAddFaceEncoding
    /\ db_call.inserted
    /\ \E r \in PrimaryRows(db_call.person_id) : r.id = db_call.ret
    /\ \E o \in EncodingsOf(face_encodings, db_call.person_id) :
          o.quality_score < db_call.quality_score

\* C5: an add_face_encoding call for an identity that holds a record with
\* the same angle and a quality greater than or equal to the new quality is
\* rejected and leaves the identity's records and primary flag unchanged,
\* for every number of records (1 to 5) the identity holds.
C5_SameAngleNotBetterRejected ==
    [][(/\ db_call'.called
        /\ db_call'.op = "add_face_encoding"
        /\ \E r \in EncodingsByAngle(face_encodings, db_call'.person_id,
                                     db_call'.angle) :
              r.quality_score >= db_call'.quality_score)
          => (/\ ~db_call'.inserted
              /\ face_encodings' = face_encodings)]_vars

\* C8: after any sequence of associate_photo calls there is at most one
\* person_photos row per (person_id, photo_id) pair, and a call for a pair
\* that already has a row leaves that row holding the new match_confidence.
C8_OneRowPerPersonPhoto ==
    /\ \A r1, r2 \in person_photos :
          (r1.person_id = r2.person_id /\ r1.photo_id = r2.photo_id)
              => r1 = r2
    /\ (db_call.called /\ db_call.op = "associate_photo")
          => \A r \in DuplicateKeyRows(person_photos, db_call.person_id,
                                       db_call.photo_id) :
                r.match_confidence = db_call.confidence

\* a second associate_photo call for a pair left its confidence in the
\* pair's only row
C8_SecondCallUpdatedConfidence ==
    /\ db_call.called
    /\ db_call.op = "associate_photo"
    /\ db_call.existed
    /\ db_call.confidence = 9500
    /\ next_assoc_id = 2
    /\ \E r \in person_photos :
          r.person_id = db_call.person_id /\ r.match_confidence = 9500

\* C9: after delete_person(id) succeeds no face_encodings record and no
\* person_photos row refers to id: get_person(id) is None and
\* get_person_encodings(id) and get_person_photos(id) are empty.
C9_DeleteCascades ==
    (db_call.called /\ db_call.op = "delete_person" /\ db_call.ret)
        => /\ GetPerson(db_call.person_id) = None
           /\ GetPersonEncodings(db_call.person_id) = {}
           /\ GetPersonPhotos(db_call.person_id) = {}
           /\ \A r \in face_encodings \cup person_photos :
                 r.person_id # db_call.person_id

\* an identity that held an encoding and a photo association was deleted
\* while another identity keeps its records
C9_DeletedPersonHadRecords ==
    /\ db_call.called
    /\ db_call.op = "delete_person"
    /\ db_call.ret
    /\ next_encoding_id > 2
    /\ next_assoc_id > 2
    /\ Cardinality(face_encodings) = 1
    /\ Cardinality(person_photos) = 1

\* ------------------------------------------------------------------------
\* add_face_encoding statement by statement.  Each caller of Callers runs
\* add_face_encoding for person 1; a step is one database statement of the
\* method (each helper opens its cursor, executes and commits on its own),
\* and the steps of the callers interleave.  Nothing in the class or the
\* schema serialises two calls for one person.
\* ------------------------------------------------------------------------

\* the person whose encodings the interleaved calls write
ConcPerson == 1

\* calls start while the next face_encodings id is below this
MaxConcEncodingId == 6

\* add_face_encoding entered with its arguments (lines 282-298)
CallAddFaceEncoding(w, angle, quality_score) ==
    /\ pc[w] = "idle"
    /\ ConcPerson \in persons
    /\ next_encoding_id < MaxConcEncodingId
    /\ pc' = [pc EXCEPT ![w] = "count"]
    /\ locals' = [locals EXCEPT ![w] =
                     [angle |-> angle, quality_score |-> quality_score,
                      existing_count |-> 0, target |-> 0]]
    /\ UNCHANGED <<resolverVars, storeVars, engineVars, scannerVars>>

\* existing_count = self._get_encoding_count(person_id); if ... >= 5
StmtGetEncodingCount(w) ==
    /\ pc[w] = "count"
    /\ locals' = [locals EXCEPT ![w].existing_count =
                     GetEncodingCount(face_encodings, ConcPerson)]
    /\ pc' = [pc EXCEPT ![w] =
                 IF AtCapacity(GetEncodingCount(face_encodings, ConcPerson))
                 THEN "by_angle" ELSE "insert"]
    /\ UNCHANGED <<resolverVars, storeVars, engineVars, scannerVars>>

\* existing_angle = self._get_encoding_by_angle(person_id, angle) and the
\* comparison of lines 308-313
StmtGetEncodingByAngle(w) ==
    /\ pc[w] = "by_angle"
    /\ IF EncodingsByAngle(face_encodings, ConcPerson, locals[w].angle) = {}
       THEN /\ pc' = [pc EXCEPT ![w] = "lowest"]
            /\ UNCHANGED locals
       ELSE \E existing_angle \in EncodingsByAngle(face_encodings, ConcPerson,
                                                   locals[w].angle) :
              IF locals[w].quality_score > existing_angle.quality_score
              THEN /\ pc' = [pc EXCEPT ![w] = "delete"]
                   /\ locals' = [locals EXCEPT ![w].target = existing_angle.id]
              ELSE /\ pc' = [pc EXCEPT ![w] = "idle"]
                   /\ locals' = [locals EXCEPT ![w] = IdleLocals]
    /\ UNCHANGED <<resolverVars, storeVars, engineVars, scannerVars>>

\* lowest = self._get_lowest_quality_encoding(person_id) and the comparison
\* of lines 317-321
StmtGetLowestQualityEncoding(w) ==
    /\ pc[w] = "lowest"
    /\ IF LowestQualityEncodings(face_encodings, ConcPerson) = {}
       THEN /\ pc' = [pc EXCEPT ![w] = "idle"]
            /\ locals' = [locals EXCEPT ![w] = IdleLocals]
       ELSE \E lowest \in LowestQualityEncodings(face_encodings, ConcPerson) :
              IF locals[w].quality_score > lowest.quality_score
              THEN /\ pc' = [pc EXCEPT ![w] = "delete"]
                   /\ locals' = [locals EXCEPT ![w].target = lowest.id]
              ELSE /\ pc' = [pc EXCEPT ![w] = "idle"]
                   /\ locals' = [locals EXCEPT ![w] = IdleLocals]
    /\ UNCHANGED <<resolverVars, storeVars, engineVars, scannerVars>>

\* self._delete_encoding(...)
StmtDeleteEncoding(w) ==
    /\ pc[w] = "delete"
    /\ face_encodings' = DeleteEncoding(face_encodings, locals[w].target)
    /\ pc' = [pc EXCEPT ![w] = "insert"]
    /\ UNCHANGED locals
    /\ UNCHANGED <<persons, next_person_id, next_encoding_id, person_photos,
                   next_assoc_id, db_call>>
    /\ UNCHANGED <<resolverVars, engineVars, scannerVars>>

\* the INSERT of lines 323-333
StmtInsertEncoding(w) ==
    /\ pc[w] = "insert"
    /\ face_encodings' = InsertEncoding(face_encodings, next_encoding_id,
                                        ConcPerson, 0, locals[w].angle,
                                        locals[w].quality_score)
    /\ next_encoding_id' = next_encoding_id + 1
    /\ pc' = [pc EXCEPT ![w] = "primary"]
    /\ UNCHANGED locals
    /\ UNCHANGED <<persons, next_person_id, person_photos, next_assoc_id,
                   db_call>>
    /\ UNCHANGED <<resolverVars, engineVars, scannerVars>>

\* self._update_primary_encoding(person_id) and the return of line 340
StmtUpdatePrimaryEncoding(w) ==
    /\ pc[w] = "primary"
    /\ \E rows \in UpdatePrimaryEncoding(face_encodings, ConcPerson) :
          face_encodings' = rows
    /\ pc' = [pc EXCEPT ![w] = "idle"]
    /\ locals' = [locals EXCEPT ![w] = IdleLocals]
    /\ UNCHANGED <<persons, next_person_id, next_encoding_id, person_photos,
                   next_assoc_id, db_call>>
    /\ UNCHANGED <<resolverVars, engineVars, scannerVars>>

ConcNext ==
    \/ AddPerson(ConcPerson)
    \/ \E w \in Callers : \E a \in StoreAngles : \E q \in StoreQualities :
          CallAddFaceEncoding(w, a, q)
    \/ \E w \in Callers : StmtGetEncodingCount(w)
    \/ \E w \in Callers : StmtGetEncodingByAngle(w)
    \/ \E w \in Callers : StmtGetLowestQualityEncoding(w)
    \/ \E w \in Callers : StmtDeleteEncoding(w)
    \/ \E w \in Callers : StmtInsertEncoding(w)
    \/ \E w \in Callers : StmtUpdatePrimaryEncoding(w)

SpecConc == Constructed /\ [][ConcNext]_vars

\* C6: when two add_face_encoding calls for one identity interleave
\* statement by statement, the identity never holds more than 5 records
\* and, once both calls have returned, it has exactly one primary record,
\* of maximum quality.
C6_InterleavedCallsKeepFiveAndPrimary ==
    /\ GetEncodingCount(face_encodings, ConcPerson)
          <= MAX_ENCODINGS_PER_PERSON
    /\ (/\ \A w \in Callers : pc[w] = "idle"
        /\ EncodingsOf(face_encodings, ConcPerson) # {})
          => /\ Cardinality(PrimaryRows(ConcPerson)) = 1
             /\ \A r \in PrimaryRows(ConcPerson) :
                   \A o \in EncodingsOf(face_encodings, ConcPerson) :
                       r.quality_score >= o.quality_score

\* ------------------------------------------------------------------------
\* EnhancedMatchingEngine and PhotoProcessor._process_face.  The processor
\* owns one engine (self.matcher) over the database.  Time is time.time()
\* in seconds.  Distances of match_face are written in thousandths (a
\* distance of d hundredths times 0.9 is 9*d thousandths), confidences of
\* match_face in units of 1/10000.
\* ------------------------------------------------------------------------

\* EnhancedMatchingEngine(self.database, threshold=0.6), in hundredths
MATCH_THRESHOLD == 60

\* seconds that pass between two looks at the clock
TickSeconds == 100

\* the clock stops here
MaxNow == 700

\* match_face calls explored
MaxMatchCalls == 3

\* encodings of the faces shown to the processor
FaceValues == {0, 40, 100}

\* angle hints of match_face; "" is None
AngleHints == {"", "frontal"}

\* get_all_encodings: the rows of face_encodings
GetAllEncodings(rows) == rows

\* "if self.encoding_cache and (current_time - self.cache_timestamp) <
\* self.cache_ttl"
CacheValid(cache, timestamp, current_time) ==
    cache # {} /\ (current_time - timestamp) < CACHE_TTL

\* _get_cached_encodings: the records it returns
CachedEncodings(cache, timestamp, current_time, rows) ==
    IF CacheValid(cache, timestamp, current_time) THEN cache
    ELSE GetAllEncodings(rows)

\* the distance match_face gives a record, in thousandths
HintedDistance(enc_record, encoding, angle) ==
    IF angle # "" /\ enc_record.angle = angle
    THEN 9 * face_distance(encoding, enc_record.encoding)
    ELSE 10 * face_distance(encoding, enc_record.encoding)

\* the records the loop of match_face can end with as best_match: least
\* distance, and among those the first in ORDER BY person_id,
\* is_primary DESC, quality_score DESC
BestMatches(all_encodings, encoding, angle) ==
    {r \in all_encodings :
        \A o \in all_encodings :
            \/ HintedDistance(r, encoding, angle)
                  < HintedDistance(o, encoding, angle)
            \/ /\ HintedDistance(r, encoding, angle)
                     = HintedDistance(o, encoding, angle)
               /\ \/ r.person_id < o.person_id
                  \/ /\ r.person_id = o.person_id
                     /\ \/ r.is_primary > o.is_primary
                        \/ /\ r.is_primary = o.is_primary
                           /\ r.quality_score >= o.quality_score}

\* the terms of e^(-x) for x = distance/1000, in millionths
RECURSIVE ExpTerm(_, _)
ExpTerm(distance, k) ==
    IF k = 0 THEN 1000000
    ELSE (ExpTerm(distance, k - 1) * distance) \div (k * 1000)

\* e^(-x) summed from term k on, in millionths
RECURSIVE ExpSeries(_, _)
ExpSeries(distance, k) ==
    IF k > 12 THEN 0
    ELSE (IF k % 2 = 0 THEN ExpTerm(distance, k)
          ELSE 0 - ExpTerm(distance, k))
         + ExpSeries(distance, k + 1)

\* _distance_to_confidence: np.clip(np.exp(-distance), 0, 1), in thousandths
DistanceToConfidence(distance) ==
    Max2(0, Min2(1000, (ExpSeries(distance, 0) + 500) \div 1000))

\* weighted_confidence = 0.7 * confidence + 0.3 * quality_weight
WeightedConfidence(distance, quality_score) ==
    7 * DistanceToConfidence(distance) + 30 * quality_score

\* the dictionaries match_face can return for the records all_encodings
MatchResults(all_encodings, encoding, angle) ==
    IF all_encodings = {}
    THEN {[matched |-> FALSE, person_id |-> None, confidence |-> 0,
           distance |-> INF, encoding_id |-> 0]}
    ELSE {IF HintedDistance(best_match, encoding, angle)
                < 10 * MATCH_THRESHOLD
          THEN [matched |-> TRUE, person_id |-> best_match.person_id,
                confidence |->
                    WeightedConfidence(
                        HintedDistance(best_match, encoding, angle),
                        best_match.quality_score),
                distance |-> HintedDistance(best_match, encoding, angle),
                encoding_id |-> best_match.id]
          ELSE [matched |-> FALSE, person_id |-> None, confidence |-> 0,
                distance |-> HintedDistance(best_match, encoding, angle),
                encoding_id |-> 0] :
            best_match \in BestMatches(all_encodings, encoding, angle)}

\* the number of the match_face call about to be made
NextMatchSeq == IF match.called THEN match.seq + 1 ELSE 1

\* what a match_face call leaves in match
MatchCall(encoding, angle, all_encodings, result) ==
    [called |-> TRUE, seq |-> NextMatchSeq, encoding |-> encoding,
     angle |-> angle, all_encodings |-> all_encodings,
     from_cache |-> CacheValid(encoding_cache, cache_timestamp, now),
     matched |-> result.matched, person_id |-> result.person_id,
     confidence |-> result.confidence, distance |-> result.distance,
     encoding_id |-> result.encoding_id]

\* what a call leaves in engine_call: its name, the name of the call before
\* it, a tag telling it from an equal call before it, whether
\* _get_cached_encodings answered from the cache, and the records it gave
EngineCall(op) ==
    [op |-> op, after |-> engine_call.op, tag |-> 1 - engine_call.tag,
     from_cache |-> CacheValid(encoding_cache, cache_timestamp, now),
     all_encodings |-> CachedEncodings(encoding_cache, cache_timestamp, now,
                                       face_encodings)]

\* the refresh of _get_cached_encodings
RefreshCache ==
    /\ encoding_cache' = CachedEncodings(encoding_cache, cache_timestamp,
                                         now, face_encodings)
    /\ cache_timestamp' =
          IF CacheValid(encoding_cache, cache_timestamp, now)
          THEN cache_timestamp ELSE now

\* match_face(encoding, angle)
MatchFace(encoding, angle) ==
    /\ NextMatchSeq <= MaxMatchCalls
    /\ RefreshCache
    /\ \E result \in MatchResults(
                        CachedEncodings(encoding_cache, cache_timestamp, now,
                                        face_encodings), encoding, angle) :
          match' = MatchCall(encoding, angle,
                             CachedEncodings(encoding_cache, cache_timestamp,
                                             now, face_encodings), result)
    /\ engine_call' = EngineCall("match_face")
    /\ UNCHANGED <<now, next_detection_id, similar>>
    /\ UNCHANGED <<resolverVars, storeVars, concVars, scannerVars>>

\* match_multi_angle(encodings): "No encodings provided" is returned before
\* anything is read; otherwise the records come from _get_cached_encodings
MatchMultiAngle(encodings) ==
    /\ IF encodings = EmptyDict
       THEN UNCHANGED <<encoding_cache, cache_timestamp, engine_call>>
       ELSE /\ RefreshCache
            /\ engine_call' = EngineCall("match_multi_angle")
    /\ UNCHANGED <<now, next_detection_id, match, similar>>
    /\ UNCHANGED <<resolverVars, storeVars, concVars, scannerVars>>

\* the order get_all_encodings returns two records in, as far as ORDER BY
\* person_id, is_primary DESC, quality_score DESC decides it
OrderedBefore(r, o) ==
    \/ r.person_id < o.person_id
    \/ /\ r.person_id = o.person_id
       /\ \/ r.is_primary > o.is_primary
          \/ /\ r.is_primary = o.is_primary
             /\ r.quality_score > o.quality_score

\* the plain distance find_similar_faces gives a record, in thousandths
PlainDistance(enc_record, encoding) ==
    10 * face_distance(encoding, enc_record.encoding)

\* the lists "matches" can be after matches.sort(key=distance): every
\* record once, by distance, equal distances in the order of all_encodings
\* (the sort is stable)
SortedByDistance(all_encodings, encoding) ==
    {s \in [1..Cardinality(all_encodings) -> all_encodings] :
        /\ \A i, j \in DOMAIN s : i # j => s[i] # s[j]
        /\ \A i, j \in DOMAIN s :
              i < j => /\ PlainDistance(s[i], encoding)
                            <= PlainDistance(s[j], encoding)
                       /\ (PlainDistance(s[i], encoding)
                              = PlainDistance(s[j], encoding))
                             => ~OrderedBefore(s[j], s[i])}

\* the dictionary find_similar_faces appends for a record
SimilarEntry(enc_record, encoding) ==
    [person_id |-> enc_record.person_id,
     distance |-> PlainDistance(enc_record, encoding),
     confidence |-> DistanceToConfidence(PlainDistance(enc_record, encoding)),
     angle |-> enc_record.angle,
     quality_score |-> enc_record.quality_score]

\* matches[:top_k]
TopK(sorted, encoding, top_k) ==
    [i \in 1..Min2(top_k, Len(sorted)) |-> SimilarEntry(sorted[i], encoding)]

\* find_similar_faces(encoding, top_k): reads the records through
\* _get_cached_encodings
FindSimilarFaces(encoding, top_k) ==
    /\ RefreshCache
    /\ engine_call' = EngineCall("find_similar_faces")
    /\ \E sorted \in SortedByDistance(
                        CachedEncodings(encoding_cache, cache_timestamp, now,
                                        face_encodings), encoding) :
          similar' = [called |-> TRUE, encoding |-> encoding,
                      top_k |-> top_k,
                      matches |-> TopK(sorted, encoding, top_k)]
    /\ UNCHANGED <<now, next_detection_id, match>>
    /\ UNCHANGED <<resolverVars, storeVars, concVars, scannerVars>>

\* get_statistics: reads the records through _get_cached_encodings
GetStatistics ==
    /\ RefreshCache
    /\ engine_call' = EngineCall("get_statistics")
    /\ UNCHANGED <<now, next_detection_id, match, similar>>
    /\ UNCHANGED <<resolverVars, storeVars, concVars, scannerVars>>

\* a clear_cache that leaves the records and the timestamp in place
ClearCacheLeavingRecords ==
    /\ engine_call' = [op |-> "clear_cache", after |-> engine_call.op,
                       tag |-> 1 - engine_call.tag, from_cache |-> FALSE,
                       all_encodings |-> {}]
    /\ UNCHANGED <<encoding_cache, cache_timestamp>>
    /\ UNCHANGED <<now, next_detection_id, match, similar>>
    /\ UNCHANGED <<resolverVars, storeVars, concVars, scannerVars>>

\* clear_cache
ClearCache ==
    /\ encoding_cache' = {}
    /\ cache_timestamp' = 0
    /\ engine_call' = [op |-> "clear_cache", after |-> engine_call.op,
                       tag |-> 1 - engine_call.tag, from_cache |-> FALSE,
                       all_encodings |-> {}]
    /\ UNCHANGED <<now, next_detection_id, match, similar>>
    /\ UNCHANGED <<resolverVars, storeVars, concVars, scannerVars>>

\* time passes
Tick ==
    /\ now + TickSeconds <= MaxNow
    /\ now' = now + TickSeconds
    /\ UNCHANGED <<encoding_cache, cache_timestamp, next_detection_id, match,
                   engine_call, similar>>
    /\ UNCHANGED <<resolverVars, storeVars, concVars, scannerVars>>

\* the person _process_face files the face under (lines 220-236)
ProcessPersonId(result) ==
    IF result.matched THEN result.person_id ELSE next_person_id

\* _process_face(image, detection, photo_id, event_id) for a face whose
\* encoding was extracted: match_face, add_person when unmatched,
\* add_face_detection, add_face_encoding, associate_photo
ProcessFace(encoding, angle, quality, photo_id, is_group) ==
    /\ NextMatchSeq <= MaxMatchCalls
    /\ RefreshCache
    /\ \E result \in MatchResults(
                        CachedEncodings(encoding_cache, cache_timestamp, now,
                                        face_encodings), encoding, angle) :
          /\ match' = MatchCall(encoding, angle,
                                CachedEncodings(encoding_cache,
                                                cache_timestamp, now,
                                                face_encodings), result)
          /\ persons' = persons \cup {ProcessPersonId(result)}
          /\ next_person_id' =
                IF result.matched THEN next_person_id
                ELSE next_person_id + 1
          /\ next_detection_id' = next_detection_id + 1
          /\ \E out \in FaceEncodingOutcomes(face_encodings,
                                             next_encoding_id,
                                             ProcessPersonId(result),
                                             encoding, angle, quality) :
                /\ face_encodings' = out.rows
                /\ next_encoding_id' =
                      IF out.inserted THEN next_encoding_id + 1
                      ELSE next_encoding_id
          /\ person_photos' =
                InsertOrUpdateAssociation(person_photos, next_assoc_id,
                                          ProcessPersonId(result), photo_id,
                                          is_group, result.confidence)
          /\ next_assoc_id' =
                IF DuplicateKeyRows(person_photos, ProcessPersonId(result),
                                    photo_id) # {}
                THEN next_assoc_id ELSE next_assoc_id + 1
          /\ db_call' = [called |-> TRUE, op |-> "associate_photo",
                         person_id |-> ProcessPersonId(result),
                         photo_id |-> photo_id,
                         confidence |-> result.confidence,
                         existed |->
                           DuplicateKeyRows(person_photos,
                                            ProcessPersonId(result),
                                            photo_id) # {}]
    /\ engine_call' = EngineCall("match_face")
    /\ UNCHANGED <<now, similar>>
    /\ UNCHANGED <<resolverVars, concVars, scannerVars>>

ProcNext ==
    \/ \E e \in FaceValues : \E q \in StoreQualities : \E ph \in PhotoIds :
          \E g \in BOOLEAN :
            ProcessFace(e, "frontal", q, ph, g)
    \/ \E e \in FaceValues : \E a \in AngleHints : MatchFace(e, a)
    \/ ClearCache
    \/ Tick

SpecProc == Constructed /\ [][ProcNext]_vars

\* the encodings dictionaries given to match_multi_angle: none, one angle
MultiAngleQueries == {EmptyDict, [a \in {"frontal"} |-> 0]}

\* the engine's operations over a store that add_person and
\* add_face_encoding fill
CacheNext ==
    \/ AddPerson(1)
    \/ \E e \in {0} :
          AddFaceEncoding(1, e, "frontal", 90, MaxEncodingIdWithPhotos)
    \/ \E e \in {0} : \E a \in {""} : MatchFace(e, a)
    \/ \E encodings \in MultiAngleQueries : MatchMultiAngle(encodings)
    \/ \E e \in {0} : \E k \in {1} : FindSimilarFaces(e, k)
    \/ GetStatistics
    \/ ClearCache
    \/ Tick

SpecCache == Constructed /\ [][CacheNext]_vars

\* C7: every path that mutates the embedding store invalidates the
\* engine's cache before it returns, so a match_face call made after
\* _process_face stored an encoding works on the store's current records:
\* the records every match_face call compares against are the rows of
\* face_encodings at the time of the call.
C7_MatchFaceUsesCurrentStore ==
    [][(match'.called /\ match' # match)
          => match'.all_encodings = GetAllEncodings(face_encodings)]_vars

\* ------------------------------------------------------------------------
\* LiveFaceScanner.  A camera frame is the record of what the detectors
\* read from it: the number of faces, the face box, the mean brightness and
\* the Laplacian variance of the face region, whether landmarks are found,
\* the horizontal offset of the nose tip from the eye centre, and the
\* encodings face_recognition returns.  Angles are degrees, quality scores
\* are tenths of a point.
\* ------------------------------------------------------------------------

\* ANGLES[...]['min_angle'] and ['max_angle']
MinAngle == [front |-> 0 - 15, left |-> 0 - 90, right |-> 25]

MaxAngle == [front |-> 15, left |-> 0 - 25, right |-> 90]

\* the keys of ANGLES
ScanAngles == {"front", "left", "right"}

POSE_VALIDATION_THRESHOLD == 20

POSE_STABILITY_FRAMES == 5

MIN_FACE_SIZE == 100

MAX_FACE_SIZE == 800

MIN_BRIGHTNESS == 40

MAX_BRIGHTNESS == 220

MIN_SHARPNESS == 50

\* a sharp, well lit frame of one face 180 pixels wide
GoodFrame(nose_offset_x) ==
    [num_faces |-> 1, face_width |-> 180, face_height |-> 180,
     brightness |-> 120, sharpness |-> 200, has_landmarks |-> TRUE,
     nose_offset_x |-> nose_offset_x, encodings |-> <<1>>]

\* nose offsets of the frames: yaw -40, -25, -10, -5, 0, 15 and 40 degrees
NoseOffsets == {0 - 80, 0 - 50, 0 - 20, 0 - 10, 0, 30, 80}

\* the frames shown to the scanner: a good one per head pose and one that
\* fails each check of detect_face_in_frame and capture_angle
Frames ==
    {GoodFrame(x) : x \in NoseOffsets}
    \cup {[GoodFrame(0) EXCEPT !.num_faces = n] : n \in {0, 2}}
    \cup {[GoodFrame(0) EXCEPT !.face_width = s, !.face_height = s] :
            s \in {50, 900}}
    \cup {[GoodFrame(0) EXCEPT !.brightness = b] : b \in {30, 230}}
    \cup {[GoodFrame(0) EXCEPT !.sharpness = 40],
          [GoodFrame(0) EXCEPT !.has_landmarks = FALSE],
          [GoodFrame(0) EXCEPT !.encodings = << >>]}

\* _calculate_yaw_angle: (nose_offset_x / (face_width / 2)) * 45
CalculateYawAngle(frame) ==
    (frame.nose_offset_x * 2 * 45) \div frame.face_width

\* _calculate_quality_score, in tenths
CalculateQualityScore(brightness, sharpness, face_size) ==
    3 * Max2(0, Min2(100, 100 - (Abs(brightness - 120) * 100) \div 80))
    + 5 * Min2(100, (sharpness * 100) \div 200)
    + 2 * Max2(0, Min2(100, 100 - (Abs(face_size - 300) * 100) \div 200))

\* the checks of detect_face_in_frame before the pose is read (lines
\* 93-141)
FramePassesQuality(frame) ==
    /\ frame.num_faces = 1
    /\ ~(frame.face_width < MIN_FACE_SIZE
         \/ frame.face_height < MIN_FACE_SIZE)
    /\ ~(frame.face_width > MAX_FACE_SIZE
         \/ frame.face_height > MAX_FACE_SIZE)
    /\ ~(frame.brightness < MIN_BRIGHTNESS)
    /\ ~(frame.brightness > MAX_BRIGHTNESS)
    /\ ~(frame.sharpness < MIN_SHARPNESS)
    /\ frame.has_landmarks

\* a pose validation that tests max_angle only
ValidatePoseBelowMaxOnly(angle, yaw_angle) ==
    yaw_angle <= MaxAngle[angle]

\* _validate_pose_for_stage with current_angle = angle
ValidatePoseForStage(angle, yaw_angle) ==
    MinAngle[angle] <= yaw_angle /\ yaw_angle <= MaxAngle[angle]

\* _check_duplicate_pose
CheckDuplicatePose(yaw_angle) ==
    \E captured_angle \in DOMAIN captured_pose_angles :
        Abs(yaw_angle - captured_pose_angles[captured_angle])
            < POSE_VALIDATION_THRESHOLD

\* the pose checks of detect_face_in_frame (lines 150-160)
PoseAccepted(angle, frame) ==
    /\ ValidatePoseForStage(angle, CalculateYawAngle(frame))
    /\ ~CheckDuplicatePose(CalculateYawAngle(frame))

\* face_detected of detect_face_in_frame
FaceDetected(angle, frame) ==
    /\ FramePassesQuality(frame)
    /\ PoseAccepted(angle, frame)
    /\ pose_stable_count + 1 >= POSE_STABILITY_FRAMES

\* the 5 latest entries of a log of evaluated frames after one more
LogFrame(log, entry) ==
    IF Len(log) < POSE_STABILITY_FRAMES THEN Append(log, entry)
    ELSE Append(Tail(log), entry)

\* capture_angle(frame, angle)
CaptureAngle(frame, angle) ==
    /\ current_angle' = angle
    /\ recent_frames' =
          LogFrame(recent_frames,
                   IF FramePassesQuality(frame) /\ PoseAccepted(angle, frame)
                   THEN angle ELSE "failed")
    /\ last_detected_angle' =
          IF FramePassesQuality(frame) THEN CalculateYawAngle(frame)
          ELSE last_detected_angle
    /\ IF FaceDetected(angle, frame) /\ frame.encodings # << >>
       THEN /\ captured_encodings' =
                  DictSet(captured_encodings, angle, frame.encodings[1])
            /\ captured_images' = DictSet(captured_images, angle, frame)
            /\ capture_quality' =
                  DictSet(capture_quality, angle,
                          CalculateQualityScore(frame.brightness,
                                                frame.sharpness,
                                                frame.face_width))
            /\ captured_pose_angles' =
                  DictSet(captured_pose_angles, angle,
                          CalculateYawAngle(frame))
            /\ pose_stable_count' = 0
            /\ scan' = [called |-> TRUE, op |-> "capture_angle",
                         angle |-> angle, success |-> TRUE]
       ELSE /\ pose_stable_count' =
                  IF FramePassesQuality(frame) /\ PoseAccepted(angle, frame)
                     /\ ~FaceDetected(angle, frame)
                  THEN pose_stable_count + 1 ELSE 0
            /\ scan' = [called |-> TRUE, op |-> "capture_angle",
                         angle |-> angle, success |-> FALSE]
            /\ UNCHANGED <<captured_encodings, captured_images,
                           capture_quality, captured_pose_angles>>
    /\ UNCHANGED <<resolverVars, storeVars, concVars, engineVars>>

\* reset that leaves the stage and the last yaw reading as they were
ResetKeepingStage ==
    /\ captured_encodings' = EmptyDict
    /\ captured_images' = EmptyDict
    /\ capture_quality' = EmptyDict
    /\ captured_pose_angles' = EmptyDict
    /\ pose_stable_count' = 0
    /\ scan' = [called |-> TRUE, op |-> "reset", angle |-> "",
                success |-> FALSE]
    /\ UNCHANGED <<recent_frames, last_detected_angle, current_angle>>
    /\ UNCHANGED <<resolverVars, storeVars, concVars, engineVars>>

\* reset
Reset ==
    /\ captured_encodings' = EmptyDict
    /\ captured_images' = EmptyDict
    /\ capture_quality' = EmptyDict
    /\ captured_pose_angles' = EmptyDict
    /\ pose_stable_count' = 0
    /\ last_detected_angle' = 0
    /\ current_angle' = "front"
    /\ scan' = [called |-> TRUE, op |-> "reset", angle |-> "",
                success |-> FALSE]
    /\ UNCHANGED recent_frames
    /\ UNCHANGED <<resolverVars, storeVars, concVars, engineVars>>

ScanNext ==
    \/ \E frame \in Frames : \E angle \in ScanAngles :
          CaptureAngle(frame, angle)
    \/ Reset

SpecScan == Constructed /\ [][ScanNext]_vars

\* the stage after a stage of the capture order front, left, right
NextStage == [front |-> "left", left |-> "right", right |-> "complete"]

\* C10: a capture session accepts captures only in the order front, left,
\* right: after an accepted capture the current stage is the next stage of
\* front -> left -> right -> complete, and no capture is held for left
\* without one for front, nor for right without one for left.
C10_CapturesInStageOrder ==
    /\ (scan.called /\ scan.success)
          => current_angle = NextStage[scan.angle]
    /\ "left" \in DOMAIN captured_encodings
          => "front" \in DOMAIN captured_encodings
    /\ "right" \in DOMAIN captured_encodings
          => "left" \in DOMAIN captured_encodings

\* the last call was capture_angle
AfterCaptureAngle == scan.called /\ scan.op = "capture_angle"

\* C11: capture_angle stores a capture for a stage only when the 5 most
\* recently evaluated frames, the current one included, each passed every
\* acceptance gate for that same stage; and a frame that fails a gate
\* leaves pose_stable_count at 0.
C11_CaptureNeedsFiveFramesOfStage ==
    /\ (AfterCaptureAngle /\ scan.success)
          => /\ Len(recent_frames) = POSE_STABILITY_FRAMES
             /\ \A i \in 1..Len(recent_frames) :
                   recent_frames[i] = scan.angle
    /\ (AfterCaptureAngle
         /\ recent_frames[Len(recent_frames)] = "failed")
          => pose_stable_count = 0

\* the half of C11 the scanner keeps: a capture follows 5 evaluated frames
\* that each passed the gates of some stage, and a failing frame leaves
\* the counter at 0
C11_CaptureNeedsFivePassingFrames ==
    /\ (AfterCaptureAngle /\ scan.success)
          => /\ Len(recent_frames) = POSE_STABILITY_FRAMES
             /\ \A i \in 1..Len(recent_frames) :
                   recent_frames[i] # "failed"
    /\ (AfterCaptureAngle
         /\ recent_frames[Len(recent_frames)] = "failed")
          => pose_stable_count = 0

\* C12: a frame is accepted for capture only if its yaw differs by more
\* than 20 degrees from every yaw already captured, so the yaws held in
\* captured_pose_angles differ pairwise by more than 20 degrees.
C12_CapturedYawsMoreThanTwentyApart ==
    \A a, b \in DOMAIN captured_pose_angles :
        a # b => Abs(captured_pose_angles[a] - captured_pose_angles[b])
                    > POSE_VALIDATION_THRESHOLD

\* what the scanner keeps of C12: captured yaws are at least 20 degrees
\* apart
C12_CapturedYawsAtLeastTwentyApart ==
    \A a, b \in DOMAIN captured_pose_angles :
        a # b => Abs(captured_pose_angles[a] - captured_pose_angles[b])
                    >= POSE_VALIDATION_THRESHOLD

\* C20: reset() called in any session state returns the session to the
\* state of a freshly constructed scanner: stage front, no captured
\* encodings, images, quality scores or yaws, pose_stable_count = 0 and
\* last_detected_angle = 0.
C20_ResetRestoresConstructedState ==
    (scan.called /\ scan.op = "reset")
        => /\ current_angle = "front"
           /\ captured_encodings = EmptyDict
           /\ captured_images = EmptyDict
           /\ capture_quality = EmptyDict
           /\ captured_pose_angles = EmptyDict
           /\ pose_stable_count = 0
           /\ last_detected_angle = 0

\* reset was called right after a capture for the stage left was stored
C20_ResetAfterCapture ==
    /\ scan.called /\ scan.op = "reset"
    /\ Len(recent_frames) = POSE_STABILITY_FRAMES
    /\ \A i \in 1..Len(recent_frames) : recent_frames[i] = "left"

\* C16: whenever add_face_encoding rejects the new embedding (nothing is
\* inserted), its return value differs from the id of every stored record,
\* whether the same-orientation record is at least as good or the new
\* quality is not better than the worst at capacity.
C16_RejectionIsNotARecordId ==
    (AfterAddFaceEncoding /\ ~db_call.inserted)
        => \A r \in face_encodings : r.id # db_call.ret

\* the part of C16 that add_face_encoding keeps: a rejection for lack of
\* quality against the worst record returns -1
C16_CapacityRejectionReturnsMinusOne ==
    (AfterAddFaceEncoding /\ ~db_call.inserted
     /\ EncodingsByAngle(face_encodings, db_call.person_id,
                          db_call.angle) = {})
        => db_call.ret = 0 - 1

\* default conditions of a recognize_face_multi_angle call: orientation
\* center, no accessories, quality_score >= 0.5 (tolerance 0.6)
DefaultConditions ==
    /\ rec.photo_orientation = "center"
    /\ ~rec.has_accessories
    /\ rec.quality_score >= 50

ThreeAngleAt(b, e) ==
    {p \in DOMAIN known_faces :
        /\ DOMAIN known_faces[p].encodings = Buckets
        /\ known_faces[p].encodings[b] = e}

\* C14: for an identity P stored with center, left and right embeddings, a
\* query identical to P's embedding of bucket b with orientation hint b is
\* resolved to P with confidence of at least 99%, for each bucket b,
\* provided no other identity has final distance 0 to the query.
C14_SameAngleQueryResolvedToOwner ==
    rec.called
        => \A b \in Buckets : \A p \in ThreeAngleAt(b, rec.photo_encoding) :
              (/\ rec.photo_orientation = b
               /\ NoOtherAtZero({p}, rec.photo_encoding, b))
                 => /\ rec.person_id = p
                    /\ rec.confidence >= 99 * 30

\* a left query equal to the left embedding of an identity whose other two
\* embeddings are at distance 1.0 was resolved
C14_LeftQueryOfSpreadIdentity ==
    /\ rec.called
    /\ rec.photo_orientation = "left"
    /\ \E p \in ThreeAngleAt("left", rec.photo_encoding) :
          /\ Abs(known_faces[p].encodings["center"] - rec.photo_encoding) = 100
          /\ Abs(known_faces[p].encodings["right"] - rec.photo_encoding) = 100
          /\ NoOtherAtZero({p}, rec.photo_encoding, "left")
          /\ rec.person_id = p

\* C15: for an identity P stored with center, left and right embeddings
\* and being the only identity, a query identical to any one of P's stored
\* embeddings is resolved to P whatever orientation hint accompanies it,
\* for all distances between P's three stored embeddings.
C15_AnyStoredEmbeddingResolvedToOwner ==
    rec.called
        => \A p \in DOMAIN known_faces :
              (/\ DOMAIN known_faces = {p}
               /\ DOMAIN known_faces[p].encodings = Buckets
               /\ \E b \in Buckets :
                     known_faces[p].encodings[b] = rec.photo_encoding)
                 => rec.person_id = p

\* C17: recognize_face_multi_angle never enrolls or modifies anything: for
\* every input and both outcomes the identities of known_faces and each
\* identity's encodings and metadata are the same after the call as before.
C17_RecognizeLeavesKnownFaces ==
    [][(rec = NoCall /\ rec' # NoCall)
          => /\ known_faces' = known_faces
             /\ known_order' = known_order]_vars

\* a call over a populated model returned no match
C17_NoMatchOverKnownFaces ==
    /\ rec.called /\ ~rec.empty
    /\ rec.person_id = None
    /\ Cardinality(DOMAIN known_faces) = 2

\* the step is a call that asked _get_cached_encodings for the records
QueryStep == engine_call' # engine_call /\ engine_call'.op # "clear_cache"

\* the cache was refreshed and has not been cleared since
Refreshed == cache_timestamp # 0

\* C18: within 300 seconds of a cache refresh every call of
\* _get_cached_encodings returns the cached population without calling
\* database.get_all_encodings; the first call made 300 seconds or more
\* after the refresh re-queries the store and resets cache_timestamp.
C18_CacheServedForTtl ==
    [][QueryStep
          => /\ (Refreshed /\ now - cache_timestamp < CACHE_TTL)
                  => /\ engine_call'.from_cache
                     /\ engine_call'.all_encodings = encoding_cache
             /\ (Refreshed /\ now - cache_timestamp >= CACHE_TTL)
                  => /\ ~engine_call'.from_cache
                     /\ engine_call'.all_encodings
                           = GetAllEncodings(face_encodings)
                     /\ cache_timestamp' = now]_vars

\* what _get_cached_encodings keeps of C18: a refresh that loaded at least
\* one record is served from the cache for 300 seconds, and any refresh
\* is repeated from 300 seconds on
C18_NonEmptyCacheServedForTtl ==
    [][QueryStep
          => /\ (Refreshed /\ encoding_cache # {}
                  /\ now - cache_timestamp < CACHE_TTL)
                  => /\ engine_call'.from_cache
                     /\ engine_call'.all_encodings = encoding_cache
             /\ (Refreshed /\ now - cache_timestamp >= CACHE_TTL)
                  => /\ ~engine_call'.from_cache
                     /\ engine_call'.all_encodings
                           = GetAllEncodings(face_encodings)
                     /\ cache_timestamp' = now]_vars

LookupCenters == {0, 100}

LookupNext ==
    \/ \E e \in LookupCenters :
          LearnFaceMultiAngle([a \in {"center"} |-> e], EmptyDict)
    \/ \E e \in EncValues : \E o \in Orientations : \E acc \in BOOLEAN :
          RecognizeFaceMultiAngle(e, o, acc, 100)
    \/ RecognizeReturn
    \/ AddPerson(1)
    \/ \E e \in {0} :
          AddFaceEncoding(1, e, "frontal", 90, MaxEncodingIdWithPhotos)
    \/ \E e \in LookupCenters : \E a \in AngleHints : MatchFace(e, a)

SpecLookup == Constructed /\ [][LookupNext]_vars

\* C21: with an empty population recognize_face_multi_angle returns no
\* identity, confidence 0 and distance +infinity for every query and every
\* orientation hint, and match_face likewise returns matched = False,
\* person_id None, confidence 0.0 and distance +infinity.
C21_EmptyPopulationGivesNoMatch ==
    /\ (rec.called /\ DOMAIN known_faces = {})
          => /\ rec.person_id = None
             /\ rec.confidence = 0
             /\ rec.distance = INF
    /\ (match.called /\ match.all_encodings = {})
          => /\ ~match.matched
             /\ match.person_id = None
             /\ match.confidence = 0
             /\ match.distance = INF

\* both lookups have answered over an empty population, the model's with
\* an orientation hint of a side profile
C21_BothLookupsOverEmpty ==
    /\ rec.called /\ DOMAIN known_faces = {}
    /\ rec.photo_orientation = "left"
    /\ match.called /\ match.all_encodings = {}
    /\ face_encodings = {}

\* the smallest plain Euclidean distance, in thousandths, from the query of
\* the last match_face call to the records it compared against
PlainNearest ==
    CHOOSE d \in {10 * face_distance(match.encoding, r.encoding) :
                    r \in match.all_encodings} :
        \A r \in match.all_encodings :
            d <= 10 * face_distance(match.encoding, r.encoding)

\* the last match_face call chose a record at the smallest plain Euclidean
\* distance, reported that distance and matched iff it is below 0.6
NearestNeighbourAnswer ==
    /\ match.distance = PlainNearest
    /\ match.matched <=> PlainNearest < 10 * MATCH_THRESHOLD
    /\ match.matched
          => \E r \in match.all_encodings :
                /\ r.id = match.encoding_id
                /\ r.person_id = match.person_id
                /\ 10 * face_distance(match.encoding, r.encoding)
                      = PlainNearest

\* C22: match_face selects as best match the stored record with the
\* smallest plain Euclidean distance to the query vector, reports that
\* Euclidean distance, and reports matched iff that distance is below the
\* threshold, whether or not an angle hint is passed.
C22_MatchFaceIsPlainNearestNeighbour ==
    (match.called /\ match.all_encodings # {}) => NearestNeighbourAnswer

\* what match_face keeps of C22: the claim's answer when no angle hint is
\* passed
C22_PlainNearestNeighbourWithoutHint ==
    (match.called /\ match.all_encodings # {} /\ match.angle = "")
        => NearestNeighbourAnswer

\* ------------------------------------------------------------------------
\* find_similar_faces over the records of several persons
\* ------------------------------------------------------------------------

\* top_k arguments of find_similar_faces
TopKs == {1, 2, 5}

SimilarNext ==
    \/ AddPerson(MaxPersonId)
    \/ \E p \in persons : \E e \in {0, 100} :
          AddFaceEncoding(p, e, "frontal", 90, MaxEncodingIdWithPhotos)
    \/ \E e \in {0, 40} : \E k \in TopKs : FindSimilarFaces(e, k)
    \/ ClearCache

SpecSimilar == Constructed /\ [][SimilarNext]_vars

\* the list returned has at most top_k entries in non-decreasing order of
\* distance
RankedAtMostK ==
    /\ Len(similar.matches) <= similar.top_k
    /\ \A i, j \in DOMAIN similar.matches :
          i < j => similar.matches[i].distance <= similar.matches[j].distance

\* find_similar_faces is the latest call of the engine: similar holds its
\* answer and engine_call the records it ranked
AfterFindSimilarFaces ==
    similar.called /\ engine_call.op = "find_similar_faces"

\* no record left out of the list is nearer to the query than a listed one
NothingNearerLeftOut ==
    \A r \in engine_call.all_encodings :
        (\A i \in DOMAIN similar.matches :
            similar.matches[i].person_id # r.person_id)
          => \A i \in DOMAIN similar.matches :
                PlainDistance(r, similar.encoding)
                    >= similar.matches[i].distance

\* C23: find_similar_faces(v, k) returns at most k entries in
\* non-decreasing order of distance, each entry a distinct identity, such
\* that no identity absent from the list is nearer to v than an identity
\* in the list.
C23_TopKNearestDistinctIdentities ==
    AfterFindSimilarFaces
        => /\ RankedAtMostK
           /\ \A i, j \in DOMAIN similar.matches :
                 i # j => similar.matches[i].person_id
                             # similar.matches[j].person_id
           /\ NothingNearerLeftOut

\* what find_similar_faces keeps of C23: the k nearest records, ranked
C23_TopKNearestRecords ==
    AfterFindSimilarFaces => RankedAtMostK /\ NothingNearerLeftOut

\* ------------------------------------------------------------------------
\* Properties of learn_face_multi_angle
\* ------------------------------------------------------------------------

\* the step is a learn_face_multi_angle call that was given a center
LearnStep ==
    /\ learn_calls' # learn_calls
    /\ learned'.op = "learn_face_multi_angle"
    /\ learned'.has_center

\* the identities owning a stored embedding at the smallest distance
NearestOwners(encoding) ==
    {p \in DOMAIN known_faces :
        \E a \in DOMAIN known_faces[p].encodings :
            \A q \in DOMAIN known_faces :
                \A b \in DOMAIN known_faces[q].encodings :
                    face_distance(known_faces[p].encodings[a], encoding)
                        <= face_distance(known_faces[q].encodings[b],
                                         encoding)}

\* some stored embedding, of any identity and bucket, is within 0.5
WithinHalf(encoding) ==
    \E p \in DOMAIN known_faces :
        \E a \in DOMAIN known_faces[p].encodings :
            face_distance(known_faces[p].encodings[a], encoding) <= 50

C28_NewIdIsFresh ==
    [][(LearnStep /\ learned'.created)
          => /\ learned'.ret \notin DOMAIN known_faces
             /\ \A p \in DOMAIN known_faces :
                   known_faces'[p] = known_faces[p]]_vars

\* what learn_face_multi_angle keeps of C28: without migrated identities
\* the new id is fresh
C28_NewIdIsFreshWithoutMigration ==
    [][(LearnStep /\ learned'.created
        /\ DOMAIN known_faces = 1..Cardinality(DOMAIN known_faces))
          => learned'.ret \notin DOMAIN known_faces]_vars

\* C25: when several records of an identity share the maximum quality, the
\* record flagged primary after add_face_encoding is the most recently
\* inserted of those records.
C25_PrimaryTieGoesToNewest ==
    (AfterAddFaceEncoding /\ db_call.inserted)
        => \A r \in PrimaryRows(db_call.person_id) :
              \A o \in HighestQualityEncodings(face_encodings,
                                                db_call.person_id) :
                  r.id >= o.id

\* the step is a _process_face call
ProcessStep == match' # match /\ next_detection_id' # next_detection_id

\* the persons holding a stored encoding identical to the one given
HoldersOf(encoding) ==
    {r.person_id : r \in {x \in face_encodings : x.encoding = encoding}}

\* C26: once _process_face has stored an encoding for identity P,
\* processing a later face whose encoding is identical to that stored
\* encoding matches P and creates no new identity, for every number of
\* other faces processed in between and every elapsed time.
C26_StoredFaceMatchesAgain ==
    [][(ProcessStep /\ HoldersOf(match'.encoding) # {})
          => /\ match'.matched
             /\ match'.person_id \in HoldersOf(match'.encoding)
             /\ persons' = persons]_vars

\* ------------------------------------------------------------------------
\* add_face_encoding with INSERT statements that can fail
\* ------------------------------------------------------------------------

InsertErrorNext ==
    \/ AddPerson(1)
    \/ \E e \in {0} : \E a \in StoreAngles : \E q \in StoreQualities :
          AddFaceEncoding(1, e, a, q, MaxEncodingId)
    \/ \E a \in StoreAngles : \E q \in StoreQualities :
          AddFaceEncodingInsertError(1, a, q)

SpecInsertError == Constructed /\ [][InsertErrorNext]_vars

\* C27: if the INSERT statement of add_face_encoding fails with a database
\* error after an existing record was chosen for replacement, the
\* identity's records after the call are the same as before the call: the
\* record chosen for replacement is still stored and the primary flag is
\* on the same record.
C27_FailedInsertKeepsRecords ==
    [][(/\ db_call'.op = "add_face_encoding raised Error"
        /\ db_call'.replaced # 0)
          => face_encodings' = face_encodings]_vars

\* what add_face_encoding keeps of C27: a failed INSERT that had nothing to
\* replace leaves the records as they were
C27_FailedInsertWithoutReplacement ==
    [][(/\ db_call'.op = "add_face_encoding raised Error"
        /\ db_call'.replaced = 0)
          => face_encodings' = face_encodings]_vars

\* ------------------------------------------------------------------------
\* recognize_face_multi_angle under degraded conditions
\* ------------------------------------------------------------------------

\* the conditions of a call are degraded: accessories or low quality
Degraded(has_accessories, quality_score) ==
    has_accessories \/ quality_score < 50

\* the answer of the same call under good conditions: no accessories and
\* quality_score 1.0
GoodConditionsAnswer(photo_encoding, photo_orientation) ==
    RecognizeResult(known_faces, known_order, photo_encoding,
                    photo_orientation, FALSE, 100)

\* C29: for a fixed population, query vector and orientation hint, a call of
\* recognize_face_multi_angle under degraded conditions (has_accessories =
\* True, quality_score < 0.5, or both) matches the identity P that the call
\* matches with has_accessories = False and quality_score >= 0.5.
C29_DegradedConditionsKeepTheMatch ==
    [][(/\ rec = NoCall
        /\ rec' # NoCall
        /\ Degraded(rec'.has_accessories, rec'.quality_score)
        /\ GoodConditionsAnswer(rec'.photo_encoding,
                                rec'.photo_orientation).person_id # None)
          => rec'.person_id
               = GoodConditionsAnswer(rec'.photo_encoding,
                                      rec'.photo_orientation).person_id]_vars

\* a call with accessories and low quality has matched an identity that the
\* same call under good conditions matches only just: at confidence equal to
\* the confidence required
C29_MarginalMatchUnderBothConditions ==
    /\ rec # NoCall
    /\ rec.has_accessories
    /\ rec.quality_score < 50
    /\ rec.person_id # None
    /\ GoodConditionsAnswer(rec.photo_encoding,
                            rec.photo_orientation).person_id = rec.person_id
    /\ rec.confidence_percentage
         = GoodConditionsAnswer(rec.photo_encoding, rec.photo_orientation)
             .min_confidence_required

\* ------------------------------------------------------------------------
\* What capture_angle stores
\* ------------------------------------------------------------------------

\* the target range of each label, inclusive: <<lowest yaw, highest yaw>>
TargetRange ==
    [front |-> <<0 - 15, 15>>, left |-> <<0 - 90, 0 - 25>>,
     right |-> <<25, 90>>]

\* C30: after any sequence of capture_angle and reset calls, every yaw
\* stored in captured_pose_angles is stored under front, left or right and
\* lies inside that label's target range, bounds included (front [-15, 15],
\* left [-90, -25], right [25, 90]), and captured_encodings, capture_quality
\* and captured_pose_angles have the same set of labels.
C30_StoredYawsInsideTargetRange ==
    /\ \A label \in DOMAIN captured_pose_angles :
          /\ label \in DOMAIN TargetRange
          /\ TargetRange[label][1] <= captured_pose_angles[label]
          /\ captured_pose_angles[label] <= TargetRange[label][2]
    /\ DOMAIN captured_encodings = DOMAIN captured_pose_angles
    /\ DOMAIN capture_quality = DOMAIN captured_pose_angles

\* all three labels are captured, front at its highest yaw (15) and left at
\* its highest yaw (-25)
C30_ThreeLabelsWithBoundaryYaws ==
    /\ DOMAIN captured_pose_angles = {"front", "left", "right"}
    /\ DOMAIN captured_encodings = {"front", "left", "right"}
    /\ captured_pose_angles["front"] = 15
    /\ captured_pose_angles["left"] = 0 - 25


====
